---- MODULE Spec2Model ----
(***************************************************************************)
(* Better-Giveaways: the giveaway store (tables giveaways and              *)
(* giveaway_role_rewards), Giveaway.update / from_database / end, the      *)
(* create-giveaway command and the 5-second giveaway checker loop.         *)
(*                                                                         *)
(* Every "await" of the source is a suspension point: one action runs the  *)
(* code from one await's completion up to the issue of the next one.       *)
(***************************************************************************)
EXTENDS Integers, Sequences, FiniteSets, TLC

VARIABLES
    giveaways,   \* table giveaways: set of rows, primary key id
    rewards,     \* table giveaway_role_rewards: set of rows, key (role_id, giveaway_id)
    now,         \* discord_utils.utcnow()
    ready,       \* bot.is_ready()
    loopAlive,   \* the tasks.loop task of _giveaway_checker is still scheduled
    sweep,       \* executions of _giveaway_checker, by slot
    cmd,         \* the running caller of Giveaway.update; replaced: its parent
                 \* upsert met a row of the same id with another ends_at
    nextMsg,     \* next message id the platform assigns
    announced,   \* ids an outcome announcement was replied for
    ended,       \* ids Giveaway.end was invoked for
    deleted,     \* ids for which the DELETE of end() completed
    skippedDue,  \* ids stored and due at a tick the readiness guard skipped
    query        \* a direct call of get_giveaways(db, guild=, channel=, message=)

vars == <<giveaways, rewards, now, ready, loopAlive, sweep, cmd, nextMsg,
          announced, ended, deleted, skippedDue, query>>

-----------------------------------------------------------------------------
(* Bounds of the model *)

MaxTime == 1        \* the clock runs 0..MaxTime
MaxMessages == 2    \* message ids the platform hands out: 1..MaxMessages
MaxIds == 2         \* identifiers ever written in a run of SpecId

(* Input domains *)

GuildIds == {1}
ChannelIds == {12}
MessageIds == 1..MaxMessages
RoleIds == {7, 8}
CommandRoleIds == {7}
Seconds == {0, 1}
Times == 0..(MaxTime + 1)
SweepSlots == {1, 2}
Users == {"bot", "ann", "bob"}
IsBot(u) == u = "bot"

(* The two emoji literals of the source, as code points.  The command adds *)
(* U+1F389; end() compares reaction.emoji with the four characters         *)
(* U+00F0 U+0178 U+017D U+2030.                                            *)
CommandEmoji == <<127881>>
EndEmoji == <<240, 376, 381, 8240>>
Emojis == {CommandEmoji, EndEmoji}

-----------------------------------------------------------------------------
(* Optional values: None is the empty set, Some(x) the singleton *)

None == {}
Some(x) == {x}
IsNone(o) == o = {}
TheValue(o) == CHOOSE x \in o : TRUE

(* Sequences over S without repetition, of every length up to |S| *)
RECURSIVE Enumerations(_)
Enumerations(S) ==
    IF S = {} THEN {<<>>}
    ELSE UNION {{<<x>> \o t : t \in Enumerations(S \ {x})} : x \in S}

RewardLists == UNION {Enumerations(R) : R \in SUBSET RoleIds}

SeqToSet(s) == {s[i] : i \in 1..Len(s)}

-----------------------------------------------------------------------------
(* Giveaway dataclass *)

generate_id_unseparated(guild_id, channel_id, message_id) ==
    ToString(guild_id) \o ToString(channel_id) \o ToString(message_id)

generate_id(guild_id, channel_id, message_id) ==
    ToString(guild_id) \o "/" \o ToString(channel_id) \o "/" \o ToString(message_id)

Giveaway(guild_id, channel_id, message_id, ends_at, role_rewards) ==
    [guild_id |-> guild_id, channel_id |-> channel_id, message_id |-> message_id,
     ends_at |-> ends_at, role_rewards |-> role_rewards]

_id(g) == generate_id(g.guild_id, g.channel_id, g.message_id)

(* data.get("role_rewards") or [] : a row of giveaways carries no such key *)
from_dict(data) ==
    Giveaway(data.guild_id, data.channel_id, data.message_id, data.ends_at,
             Some(IF "role_rewards" \in DOMAIN data THEN data.role_rewards ELSE <<>>))

-----------------------------------------------------------------------------
(* Storage statements *)

GiveawayRow(g) ==
    [id |-> _id(g), guild_id |-> g.guild_id, channel_id |-> g.channel_id,
     message_id |-> g.message_id, ends_at |-> g.ends_at]

(* INSERT INTO giveaways ... ON CONFLICT (id) DO UPDATE SET ... *)
UpsertKeepOld(table, g) ==
    IF \E r \in table : r.id = _id(g) THEN table ELSE table \cup {GiveawayRow(g)}

UpsertGiveaway(table, g) ==
    {r \in table : r.id # _id(g)} \cup {GiveawayRow(g)}

RewardRow(role_id, giveaway_id) == [role_id |-> role_id, giveaway_id |-> giveaway_id]

(* INSERT INTO giveaway_role_rewards ... ON CONFLICT (role_id, giveaway_id) DO UPDATE *)
UpsertReward(table, role_id, giveaway_id) ==
    table \cup {RewardRow(role_id, giveaway_id)}

(* Schema: giveaway_role_rewards.giveaway_id references giveaways(id), and *)
(* the delete of a parent row cascades to its reward rows.                 *)
ForeignKeyOk(parents, giveaway_id) == \E r \in parents : r.id = giveaway_id

KeepRewardsOnDelete(table, parentsLeft) == table

CascadeRewards(table, parentsLeft) ==
    {w \in table : \E r \in parentsLeft : r.id = w.giveaway_id}

(* DELETE FROM giveaways WHERE id = $1 *)
DeleteNothing(table, g) == table

DeleteWhereChannelFirst(table, g) ==
    {r \in table : r.id # generate_id(g.channel_id, g.guild_id, g.message_id)}

DeleteGiveaway(table, g) == {r \in table : r.id # _id(g)}

(* SELECT * FROM giveaways WHERE id = $1, then payload[0] / IndexError *)
from_database(table, guild_id, channel_id, message_id) ==
    LET payload == {r \in table : r.id = generate_id(guild_id, channel_id, message_id)}
    IN  IF payload = {} THEN None ELSE Some(from_dict(CHOOSE r \in payload : TRUE))

-----------------------------------------------------------------------------
(* Process records *)

IdleSweep ==
    [pc |-> "idle", payload |-> {}, list |-> {}, cur |-> None, win |-> None,
     due |-> {}, owed |-> {}, kept |-> {}]
IdleCmd == [pc |-> "idle", g |-> None, i |-> 1, replaced |-> FALSE]
IdleQuery ==
    [pc |-> "idle", guild |-> None, channel |-> None, message |-> None,
     payload |-> {}, result |-> {}, issued |-> 0, held |-> {}]

StoredIds == {r.id : r \in giveaways}

(* giveaway.ends_at <= discord_utils.utcnow() *)
is_due_never_checked(ends_at, t) == TRUE

is_due(ends_at, t) == ends_at <= t

DueIds == {r.id : r \in {x \in giveaways : x.ends_at <= now}}

Init ==
    /\ giveaways = {}
    /\ rewards = {}
    /\ now = 0
    /\ ready = FALSE
    /\ loopAlive = TRUE
    /\ sweep = [s \in SweepSlots |-> IdleSweep]
    /\ cmd = IdleCmd
    /\ nextMsg = 1
    /\ announced = {}
    /\ ended = {}
    /\ deleted = {}
    /\ skippedDue = {}
    /\ query = IdleQuery

-----------------------------------------------------------------------------
(* Environment: the clock, the gateway becoming ready, a process restart *)

AdvanceClock ==
    /\ now < MaxTime
    /\ now' = now + 1
    /\ UNCHANGED <<giveaways, rewards, ready, loopAlive, sweep, cmd, nextMsg,
                   announced, ended, deleted, skippedDue, query>>

BecomeReady ==
    /\ ~ready
    /\ ready' = TRUE
    /\ UNCHANGED <<giveaways, rewards, now, loopAlive, sweep, cmd, nextMsg,
                   announced, ended, deleted, skippedDue, query>>

(* The process dies and is started again: every task is gone, the store    *)
(* and the platform's messages stay.  Tasks.__init__ starts the loop.      *)
Crash ==
    /\ ready' = FALSE
    /\ loopAlive' = TRUE
    /\ sweep' = [s \in SweepSlots |-> IdleSweep]
    /\ cmd' = IdleCmd
    /\ skippedDue' = {}
    /\ query' = IdleQuery
    /\ UNCHANGED <<giveaways, rewards, now, nextMsg, announced, ended, deleted>>

-----------------------------------------------------------------------------
(* GiveawayManaging._create_giveaway_command and Giveaway.update *)

CreateGiveaway(guild, channel, seconds, role) ==
    /\ cmd.pc = "idle"
    /\ nextMsg <= MaxMessages
    /\ cmd' = [pc |-> "upd_parent",
               g |-> Some(Giveaway(guild, channel, nextMsg, now + seconds,
                                   IF IsNone(role) THEN None
                                   ELSE Some(<<TheValue(role)>>))),
               i |-> 1, replaced |-> FALSE]
    /\ nextMsg' = nextMsg + 1
    /\ UNCHANGED <<giveaways, rewards, now, ready, loopAlive, sweep,
                   announced, ended, deleted, skippedDue, query>>

(* A caller of update() with a giveaway of its own making *)
PersistCall(g) ==
    /\ cmd.pc = "idle"
    /\ cmd' = [pc |-> "upd_parent", g |-> Some(g), i |-> 1, replaced |-> FALSE]
    /\ UNCHANGED <<giveaways, rewards, now, ready, loopAlive, sweep, nextMsg,
                   announced, ended, deleted, skippedDue, query>>

RewardsOf(g) == IF IsNone(g.role_rewards) THEN <<>> ELSE TheValue(g.role_rewards)

UpdateParent ==
    /\ cmd.pc = "upd_parent"
    /\ LET g == TheValue(cmd.g) IN
        /\ giveaways' = UpsertGiveaway(giveaways, g)
        /\ cmd' = [cmd EXCEPT
                     !.pc = IF RewardsOf(g) = <<>> THEN "done" ELSE "upd_reward",
                     !.replaced = \E r \in giveaways :
                                      r.id = _id(g) /\ r.ends_at # g.ends_at]
    /\ UNCHANGED <<rewards, now, ready, loopAlive, sweep, nextMsg,
                   announced, ended, deleted, skippedDue, query>>

UpdateReward ==
    /\ cmd.pc = "upd_reward"
    /\ LET g == TheValue(cmd.g) IN
        IF ForeignKeyOk(giveaways, _id(g))
        THEN /\ rewards' = UpsertReward(rewards, RewardsOf(g)[cmd.i], _id(g))
             /\ cmd' = IF cmd.i = Len(RewardsOf(g))
                       THEN [cmd EXCEPT !.pc = "done"]
                       ELSE [cmd EXCEPT !.i = cmd.i + 1]
        ELSE /\ rewards' = rewards
             /\ cmd' = [cmd EXCEPT !.pc = "failed"]
    /\ UNCHANGED <<giveaways, now, ready, loopAlive, sweep, nextMsg,
                   announced, ended, deleted, skippedDue, query>>

(* leaving "async with vbu.DatabaseConnection()" *)
CommandExit ==
    /\ cmd.pc \in {"done", "failed"}
    /\ cmd' = IdleCmd
    /\ UNCHANGED <<giveaways, rewards, now, ready, loopAlive, sweep, nextMsg,
                   announced, ended, deleted, skippedDue, query>>

-----------------------------------------------------------------------------
(* get_giveaways *)

(* len([arg for arg in (guild, channel, message) if arg is not None]) *)
FilterCount(guild, channel, message) ==
    Cardinality({k \in {"guild", "channel", "message"} :
        ~IsNone([guild |-> guild, channel |-> channel, message |-> message][k])})

(* ... > 1: raise ValueError *)
RejectsAllThreeOnly(guild, channel, message) == FilterCount(guild, channel, message) > 2

RejectsFilters(guild, channel, message) == FilterCount(guild, channel, message) > 1

(* the elif chain of SELECT * FROM giveaways [WHERE column = $1] *)
SelectIgnoringFilter(table, guild, channel, message) == table

SelectGiveaways(table, guild, channel, message) ==
    IF ~IsNone(guild) THEN {r \in table : r.guild_id = TheValue(guild)}
    ELSE IF ~IsNone(channel) THEN {r \in table : r.channel_id = TheValue(channel)}
    ELSE IF ~IsNone(message) THEN {r \in table : r.message_id = TheValue(message)}
    ELSE table

(* SELECT * FROM giveaway_role_rewards WHERE giveaway_id = ANY($1::text[]) *)
SelectRewards(table, payload) == {w \in table : w.giveaway_id \in {r.id : r \in payload}}

RolesUnder(rrows, id) == {w.role_id : w \in {x \in rrows : x.giveaway_id = id}}

(* The orders in which the reward rows of each parent can come back *)
RewardOrders(payload, rrows) ==
    {order \in [{r.id : r \in payload} -> RewardLists] :
        \A id \in DOMAIN order : order[id] \in Enumerations(RolesUnder(rrows, id))}

(* The join of get_giveaways: every reward row is appended to the parent   *)
(* its giveaway_id names, in the order the rows come back.                 *)
JoinRowFirstParent(row, rrows, order) ==
    [id |-> row.id, guild_id |-> row.guild_id, channel_id |-> row.channel_id,
     message_id |-> row.message_id, ends_at |-> row.ends_at,
     role_rewards |-> order[CHOOSE id \in DOMAIN order :
                               \A other \in DOMAIN order : Len(order[other]) <= Len(order[id])]]

JoinRow(row, rrows, order) ==
    IF \E w \in rrows : w.giveaway_id = row.id
    THEN [id |-> row.id, guild_id |-> row.guild_id, channel_id |-> row.channel_id,
          message_id |-> row.message_id, ends_at |-> row.ends_at,
          role_rewards |-> order[row.id]]
    ELSE row

(* return [Giveaway.from_dict(data) for data in payload.values()] *)
JoinAll(payload, rrows, order) == {from_dict(JoinRow(r, rrows, order)) : r \in payload}

(* A call get_giveaways(db, guild=, channel=, message=): the code up to    *)
(* the first await                                                         *)
GetGiveaways(guild, channel, message) ==
    /\ query.pc = "idle"
    /\ query' = [IdleQuery EXCEPT
                   !.pc = IF RejectsFilters(guild, channel, message)
                          THEN "ValueError" ELSE "q_parents",
                   !.guild = guild, !.channel = channel, !.message = message]
    /\ UNCHANGED <<giveaways, rewards, now, ready, loopAlive, sweep, cmd, nextMsg,
                   announced, ended, deleted, skippedDue>>

(* payload = await db(SELECT * FROM giveaways ...).  held is bookkeeping  *)
(* for the properties that compare the returned list with the store of    *)
(* this instant: the reward rows stored under the selected parents, kept   *)
(* when record is set and read by no step of the program.                  *)
GetParentsRecording(record) ==
    /\ query.pc = "q_parents"
    /\ LET payload == SelectGiveaways(giveaways, query.guild, query.channel,
                                      query.message)
       IN  query' = [query EXCEPT
                       !.pc = "q_rewards",
                       !.payload = payload,
                       !.issued = query.issued + 1,
                       !.held = IF record THEN SelectRewards(rewards, payload) ELSE {}]
    /\ UNCHANGED <<giveaways, rewards, now, ready, loopAlive, sweep, cmd, nextMsg,
                   announced, ended, deleted, skippedDue>>

GetParents == GetParentsRecording(FALSE)

GetParentsObserved == GetParentsRecording(TRUE)

(* payload_row = payload[row["giveaway_id"]] raises KeyError for a reward  *)
(* row whose parent is not in payload                                      *)
ParentMissing(payload, rrows) == \E w \in rrows : w.giveaway_id \notin {r.id : r \in payload}

(* payload_role_rewards = await db(...), the join and the return *)
GetRewards ==
    /\ query.pc = "q_rewards"
    /\ LET rrows == SelectRewards(rewards, query.payload)
       IN  \E order \in RewardOrders(query.payload, rrows) :
             query' = IF ParentMissing(query.payload, rrows)
                      THEN [query EXCEPT !.pc = "KeyError",
                                         !.issued = query.issued + 1]
                      ELSE [query EXCEPT
                              !.pc = "returned",
                              !.result = JoinAll(query.payload, rrows, order),
                              !.issued = query.issued + 1]
    /\ UNCHANGED <<giveaways, rewards, now, ready, loopAlive, sweep, cmd, nextMsg,
                   announced, ended, deleted, skippedDue>>

(* the caller takes the list or the error *)
QueryExit ==
    /\ query.pc \in {"returned", "ValueError", "KeyError"}
    /\ query' = IdleQuery
    /\ UNCHANGED <<giveaways, rewards, now, ready, loopAlive, sweep, cmd, nextMsg,
                   announced, ended, deleted, skippedDue>>

-----------------------------------------------------------------------------
(* Tasks._giveaway_checker, run by tasks.loop(seconds=5.0) *)

InFlight == {s \in SweepSlots : sweep[s].pc # "idle"}

(* tasks.loop awaits one run of the coroutine before it sleeps and starts  *)
(* the next one.                                                           *)
LoopStartsOnTimer == TRUE

LoopMayStart == InFlight = {}

(* if not self.bot.is_ready(): return *)
TickRuns == ready

FreeSlot == CHOOSE s \in SweepSlots \ InFlight : \A t \in SweepSlots \ InFlight : s <= t

(* One tick of the loop. The sets due and owed of the sweep it starts, and  *)
(* skippedDue, are bookkeeping for the properties that follow the stored   *)
(* giveaways of a tick through its sweep; they are filled when record is   *)
(* set and read by no step of the program.                                 *)
TickRecording(record) ==
    /\ loopAlive
    /\ LoopMayStart
    /\ InFlight # SweepSlots
    /\ IF TickRuns
       THEN /\ sweep' = [sweep EXCEPT ![FreeSlot] =
                            [IdleSweep EXCEPT
                                !.pc = "q_parents",
                                !.due = IF record THEN DueIds ELSE {},
                                !.owed = IF record THEN skippedDue ELSE {}]]
            /\ skippedDue' = {}
       ELSE /\ sweep' = sweep
            /\ skippedDue' = IF record THEN skippedDue \cup DueIds ELSE skippedDue
    /\ UNCHANGED <<giveaways, rewards, now, ready, loopAlive, cmd, nextMsg,
                   announced, ended, deleted, query>>

Tick == TickRecording(FALSE)

TickObserved == TickRecording(TRUE)

(* get_giveaways(db), first query: SELECT * FROM giveaways *)
QueryParents(s) ==
    /\ sweep[s].pc = "q_parents"
    /\ sweep' = [sweep EXCEPT ![s].pc = "q_rewards",
                              ![s].payload = SelectGiveaways(giveaways, None, None, None)]
    /\ UNCHANGED <<giveaways, rewards, now, ready, loopAlive, cmd, nextMsg,
                   announced, ended, deleted, skippedDue, query>>

(* second query: ... WHERE giveaway_id = ANY($1::text[]), join, from_dict *)
QueryRewards(s) ==
    /\ sweep[s].pc = "q_rewards"
    /\ LET payload == sweep[s].payload
           rrows == SelectRewards(rewards, payload)
       IN  \E order \in RewardOrders(payload, rrows) :
             sweep' = [sweep EXCEPT
                         ![s].pc = "loop",
                         ![s].payload = {},
                         ![s].list = JoinAll(payload, rrows, order)]
    /\ UNCHANGED <<giveaways, rewards, now, ready, loopAlive, cmd, nextMsg,
                   announced, ended, deleted, skippedDue, query>>

(* for giveaway in giveaways: if giveaway.ends_at <= utcnow(): await giveaway.end() *)
LoopNext(s) ==
    /\ sweep[s].pc = "loop"
    /\ \E g \in sweep[s].list :
         IF is_due(g.ends_at, now)
         THEN /\ sweep' = [sweep EXCEPT ![s].pc = "end_delete",
                                        ![s].list = @ \ {g},
                                        ![s].cur = Some(g)]
              /\ ended' = ended \cup {_id(g)}
         ELSE /\ sweep' = [sweep EXCEPT ![s].list = @ \ {g},
                                        ![s].kept = @ \cup {_id(g)}]
              /\ ended' = ended
    /\ UNCHANGED <<giveaways, rewards, now, ready, loopAlive, cmd, nextMsg,
                   announced, deleted, skippedDue, query>>

SweepReturn(s) ==
    /\ sweep[s].pc = "loop"
    /\ sweep[s].list = {}
    /\ sweep' = [sweep EXCEPT ![s] = IdleSweep]
    /\ UNCHANGED <<giveaways, rewards, now, ready, loopAlive, cmd, nextMsg,
                   announced, ended, deleted, skippedDue, query>>

(* An exception leaves end(), the for loop and the coroutine; tasks.loop   *)
(* does not run the coroutine again.                                        *)
Raised(s) ==
    /\ sweep' = [sweep EXCEPT ![s] = IdleSweep]
    /\ loopAlive' = FALSE

EndReturns(s) == sweep' = [sweep EXCEPT ![s].pc = "loop", ![s].cur = None, ![s].win = None]

(* A storage call of the checker fails: opening the connection or one of   *)
(* the queries of get_giveaways (tasks.py:30-31), or the DELETE of end().  *)
(* The error is an OSError (the connection is refused or reset) or an      *)
(* asyncpg.PostgresError.  Nothing in _giveaway_checker or end() catches   *)
(* it.  tasks.loop runs the coroutine again after an OSError, and after no *)
(* other error.                                                            *)
StorageErrors == {"OSError", "PostgresError"}

RetriedByLoop == {"OSError"}

AtStorageCall(s) == sweep[s].pc \in {"q_parents", "q_rewards", "end_delete"}

StorageFails(s, error) ==
    /\ AtStorageCall(s)
    /\ IF error \in RetriedByLoop
       THEN sweep' = [sweep EXCEPT ![s] = IdleSweep] /\ loopAlive' = loopAlive
       ELSE Raised(s)
    /\ UNCHANGED <<giveaways, rewards, now, ready, cmd, nextMsg,
                   announced, ended, deleted, skippedDue, query>>

CheckerStorageFails == \E s \in SweepSlots, error \in StorageErrors : StorageFails(s, error)

-----------------------------------------------------------------------------
(* Giveaway.end *)

(* The errors the platform's HTTP calls raise: discord.HTTPException and   *)
(* its subclasses discord.NotFound and discord.Forbidden                   *)
MessagingErrors == {"NotFound", "Forbidden", "HTTPException"}

(* the DELETE completes; bot.get_channel(self.channel_id) follows without  *)
(* a suspension point and finds the channel or not                         *)
DeleteThenChannel(s, channel_found) ==
    /\ sweep[s].pc = "end_delete"
    /\ LET g == TheValue(sweep[s].cur) IN
        /\ giveaways' = DeleteGiveaway(giveaways, g)
        /\ rewards' = CascadeRewards(rewards, giveaways')
        /\ deleted' = deleted \cup {_id(g)}
    /\ IF channel_found
       THEN sweep' = [sweep EXCEPT ![s].pc = "end_fetch"]
       ELSE EndReturns(s)
    /\ UNCHANGED <<now, ready, loopAlive, cmd, nextMsg,
                   announced, ended, skippedDue, query>>

EndDelete(s) == \E channel_found \in BOOLEAN : DeleteThenChannel(s, channel_found)

(* except (discord.NotFound, discord.Forbidden, discord.HTTPException): return *)
CaughtOnFetchNotFoundOnly == {"NotFound"}

CaughtOnFetch == {"NotFound", "Forbidden", "HTTPException"}

(* await channel.fetch_message(self.message_id) raises error *)
FetchRaises(s, error) ==
    /\ sweep[s].pc = "end_fetch"
    /\ IF error \in CaughtOnFetch
       THEN EndReturns(s) /\ loopAlive' = loopAlive
       ELSE Raised(s)
    /\ UNCHANGED <<giveaways, rewards, now, ready, cmd, nextMsg,
                   announced, ended, deleted, skippedDue, query>>

EndFetchFails(s) == \E error \in MessagingErrors : FetchRaises(s, error)

(* next(reaction for reaction in message.reactions if reaction.emoji == ...) *)
find_reaction(reactions) == IF EndEmoji \in reactions THEN Some(EndEmoji) ELSE None

(* fetch_message returns a message that carries the reactions *)
FetchReturns(s, reactions) ==
    /\ sweep[s].pc = "end_fetch"
    /\ IF IsNone(find_reaction(reactions))
       THEN EndReturns(s)
       ELSE sweep' = [sweep EXCEPT ![s].pc = "end_users"]
    /\ UNCHANGED <<giveaways, rewards, now, ready, loopAlive, cmd, nextMsg,
                   announced, ended, deleted, skippedDue, query>>

EndFetched(s) == \E reactions \in SUBSET Emojis : FetchReturns(s, reactions)

(* participants = [user async for user in reaction.users() if not user.bot] *)
ParticipantsWithBots(users) == users

Participants(users) == {u \in users : ~IsBot(u)}

Announcement(kind, winner, n) == [kind |-> kind, winner |-> winner, n |-> n]

(* reaction.users() yields users; random.choice picks among the participants *)
EnumerateUsers(s, users) ==
    /\ sweep[s].pc = "end_users"
    /\ LET participants == Participants(users) IN
         IF participants = {}
         THEN sweep' = [sweep EXCEPT ![s].pc = "end_reply",
                          ![s].win = Some(Announcement("nobody", "", Cardinality(participants)))]
         ELSE \E winner \in participants :
                sweep' = [sweep EXCEPT ![s].pc = "end_reply",
                            ![s].win = Some(Announcement("winner", winner,
                                                         Cardinality(participants)))]
    /\ UNCHANGED <<giveaways, rewards, now, ready, loopAlive, cmd, nextMsg,
                   announced, ended, deleted, skippedDue, query>>

EndUsers(s) == \E users \in SUBSET Users : EnumerateUsers(s, users)

(* reaction.users() raises error: no handler in end() nor in the checker *)
UsersRaises(s, error) ==
    /\ sweep[s].pc = "end_users"
    /\ Raised(s)
    /\ UNCHANGED <<giveaways, rewards, now, ready, cmd, nextMsg,
                   announced, ended, deleted, skippedDue, query>>

EndUsersRaises(s) == \E error \in MessagingErrors : UsersRaises(s, error)

(* await message.reply(...) succeeds *)
EndReply(s) ==
    /\ sweep[s].pc = "end_reply"
    /\ announced' = announced \cup {_id(TheValue(sweep[s].cur))}
    /\ EndReturns(s)
    /\ UNCHANGED <<giveaways, rewards, now, ready, loopAlive, cmd, nextMsg,
                   ended, deleted, skippedDue, query>>

(* message.reply() raises error: no handler in end() nor in the checker *)
ReplyRaises(s, error) ==
    /\ sweep[s].pc = "end_reply"
    /\ Raised(s)
    /\ UNCHANGED <<giveaways, rewards, now, ready, cmd, nextMsg,
                   announced, ended, deleted, skippedDue, query>>

EndReplyRaises(s) == \E error \in MessagingErrors : ReplyRaises(s, error)

-----------------------------------------------------------------------------
(* Specifications *)

Roles == {None} \cup {Some(r) : r \in CommandRoleIds}

SweepStep ==
    \E s \in SweepSlots :
        \/ QueryParents(s)
        \/ QueryRewards(s)
        \/ LoopNext(s)
        \/ SweepReturn(s)
        \/ EndDelete(s)
        \/ EndFetchFails(s)
        \/ EndFetched(s)
        \/ EndUsers(s)
        \/ EndUsersRaises(s)
        \/ EndReply(s)
        \/ EndReplyRaises(s)

Update ==
    \/ UpdateParent
    \/ UpdateReward
    \/ CommandExit

Checker ==
    \/ BecomeReady
    \/ Tick
    \/ SweepStep

CreateCommand ==
    \E guild \in GuildIds, channel \in ChannelIds, seconds \in Seconds, role \in Roles :
        CreateGiveaway(guild, channel, seconds, role)

ApiGiveaways ==
    {Giveaway(g, c, m, t, rr) :
        g \in GuildIds, c \in ChannelIds, m \in MessageIds, t \in Times,
        rr \in {None} \cup {Some(l) : l \in RewardLists}}

ApiCall == \E g \in ApiGiveaways : PersistCall(g)

(* The bot: giveaways are created by the command, on fresh messages *)
Next == CreateCommand \/ Update \/ Checker \/ AdvanceClock \/ Crash

Spec == Init /\ [][Next]_vars

(* The bot with a store whose calls can fail under the checker *)
NextFaults == Next \/ CheckerStorageFails

SpecFaults == Init /\ [][NextFaults]_vars

(* The bot, each sweep remembering what was stored and due at its tick *)
CheckerObserved ==
    \/ BecomeReady
    \/ TickObserved
    \/ SweepStep

NextObserved == CreateCommand \/ Update \/ CheckerObserved \/ AdvanceClock \/ Crash

SpecObserved == Init /\ [][NextObserved]_vars

(* get_giveaways called with any filters on any store that update() can   *)
(* have written, next to the checker that concludes the stored giveaways   *)
GuildFilters == {None} \cup {Some(v) : v \in GuildIds \cup ChannelIds}

ChannelFilters == {None} \cup {Some(v) : v \in GuildIds \cup ChannelIds}

MessageFilters == {None} \cup {Some(v) : v \in MessageIds}

StoreTimes == {0}

StoredRows ==
    {GiveawayRow(Giveaway(g, c, m, t, None)) :
        g \in GuildIds, c \in ChannelIds, m \in MessageIds, t \in StoreTimes}

InitQuery ==
    /\ giveaways \in {S \in SUBSET StoredRows :
                         \A r1, r2 \in S : r1.id = r2.id => r1 = r2}
    /\ rewards \in SUBSET {RewardRow(role, r.id) : role \in RoleIds, r \in giveaways}
    /\ now = 0
    /\ ready = FALSE
    /\ loopAlive = TRUE
    /\ sweep = [s \in SweepSlots |-> IdleSweep]
    /\ cmd = IdleCmd
    /\ nextMsg = 1
    /\ announced = {}
    /\ ended = {}
    /\ deleted = {}
    /\ skippedDue = {}
    /\ query = IdleQuery

QueryCall ==
    \E guild \in GuildFilters, channel \in ChannelFilters, message \in MessageFilters :
        GetGiveaways(guild, channel, message)

QueryStep ==
    \/ GetParents
    \/ GetRewards
    \/ QueryExit

NextQuery == QueryCall \/ QueryStep \/ Checker

SpecQuery == InitQuery /\ [][NextQuery]_vars

(* get_giveaways next to the checker, the call remembering the reward     *)
(* rows that were stored when its parent query ran                         *)
QueryStepObserved ==
    \/ GetParentsObserved
    \/ GetRewards
    \/ QueryExit

NextSnapshot == QueryCall \/ QueryStepObserved \/ Checker

SpecSnapshot == InitQuery /\ [][NextSnapshot]_vars

(* The checker alone, concluding any store that update() can have written *)
SpecEnd == InitQuery /\ [][Checker]_vars

(* update() called with identifiers whose digits run into each other, next *)
(* to the checker that ends what is stored                                 *)
IdTriples == {<<g, c, m>> : g \in {1, 11}, c \in {1, 11}, m \in {1}}

IdGiveaways == {Giveaway(t[1], t[2], t[3], 0, Some(<<7>>)) : t \in IdTriples}

IdCall ==
    \E g \in IdGiveaways :
        /\ _id(g) \notin StoredIds \cup ended
        /\ Cardinality(StoredIds \cup ended) < MaxIds
        /\ PersistCall(g)

NextId == IdCall \/ Update \/ Checker

SpecId == Init /\ [][NextId]_vars

(* The store's interface: update() called with any giveaway, one call     *)
(* after the other, before any conclusion                                  *)
NextApi == ApiCall \/ Update

SpecApi == Init /\ [][NextApi]_vars

-----------------------------------------------------------------------------
(* Steps of one execution s of the checker, told by its position *)

CurId(s) == _id(TheValue(sweep[s].cur))

InvokesEnd(s) == sweep[s].pc = "loop" /\ sweep'[s].pc = "end_delete"

InvokedId(s) == _id(TheValue(sweep'[s].cur))

CompletesDelete(s) ==
    sweep[s].pc = "end_delete" /\ sweep'[s].pc \in {"end_fetch", "loop"}

Replies(s) == sweep[s].pc = "end_reply" /\ sweep'[s].pc = "loop"

(* the coroutine is left, by return or by an exception; a restart is not it *)
SweepEnds(s) == sweep[s].pc # "idle" /\ sweep'[s].pc = "idle" /\ ready'

InMessaging(s) == sweep[s].pc \in {"end_fetch", "end_users", "end_reply"}

-----------------------------------------------------------------------------
(* C1, as stated: under Spec every id is persisted once (the command makes *)
(* each giveaway on a fresh message); end() is invoked for an id at most   *)
(* once, at most one outcome announcement is posted for it, and once its   *)
(* record is deleted no sweep processes it again, crashes included.        *)
C1_InvokedAtMostOnce ==
    [][\A s \in SweepSlots :
          /\ InvokesEnd(s) => InvokedId(s) \notin ended \cup deleted
          /\ Replies(s) => CurId(s) \notin announced]_vars

(* C1, amended: for every id persisted once, the DELETE of end() completes *)
(* at most once and at most one outcome announcement is posted; once the   *)
(* DELETE has completed no sweep invokes end() for the id again.  (end()   *)
(* is invoked a second time when the process died before the DELETE of     *)
(* the first invocation completed.)                                        *)
C1_ConcludedAtMostOnce ==
    [][\A s \in SweepSlots :
          /\ InvokesEnd(s) => InvokedId(s) \notin deleted
          /\ CompletesDelete(s) => CurId(s) \notin deleted
          /\ Replies(s) => CurId(s) \notin announced]_vars

(* a giveaway was concluded and announced, and a later sweep has loaded    *)
(* the stored giveaways without it                                          *)
C1_Witness ==
    \E id \in announced :
        /\ id \in ended \cap deleted
        /\ \E s \in SweepSlots :
              /\ sweep[s].pc = "q_rewards"
              /\ sweep[s].payload # {}
              /\ id \notin {r.id : r \in sweep[s].payload}

(* C2: while end() is in a messaging call, when it posts its announcement  *)
(* and when a messaging call has failed, the giveaway's record is already  *)
(* deleted: from_database finds nothing under its identifier.              *)
C2_DeleteBeforeMessaging ==
    /\ \A s \in SweepSlots :
          InMessaging(s) =>
              LET g == TheValue(sweep[s].cur)
              IN  IsNone(from_database(giveaways, g.guild_id, g.channel_id, g.message_id))
    /\ \A g \in GuildIds, c \in ChannelIds, m \in MessageIds :
          generate_id(g, c, m) \in announced =>
              IsNone(from_database(giveaways, g, c, m))

(* end() is about to reply its announcement, its DELETE done, while        *)
(* another giveaway is still stored                                        *)
C2_Witness ==
    \E s \in SweepSlots :
        /\ sweep[s].pc = "end_reply"
        /\ CurId(s) \in deleted
        /\ giveaways # {}

(* C3: every giveaway that is stored and due when a tick starts a sweep    *)
(* (the bot being ready) is concluded by that sweep: when the sweep is     *)
(* over, its record is deleted.                                            *)
C3_DueConcludedByNextSweep ==
    [][\A s \in SweepSlots :
          SweepEnds(s) => sweep[s].due \cap StoredIds' = {}]_vars

(* C4: no step removes the record of a stored giveaway whose ends_at is    *)
(* later than the clock, removes or (the command apart) adds a reward row  *)
(* of it, or invokes end() for it; none is inside end().                   *)
C4_NotDueUntouched ==
    [][\A r \in giveaways :
          r.ends_at > now =>
              /\ r \in giveaways'
              /\ RolesUnder(rewards, r.id) \subseteq RolesUnder(rewards', r.id)
              /\ cmd' = cmd => RolesUnder(rewards', r.id) = RolesUnder(rewards, r.id)
              /\ \A s \in SweepSlots :
                    /\ ~(InvokesEnd(s) /\ InvokedId(s) = r.id)
                    /\ ~IsNone(sweep[s].cur) => CurId(s) # r.id]_vars

(* a sweep has evaluated a giveaway that is not due, and it is still stored *)
C4_Witness ==
    \E s \in SweepSlots : \E r \in giveaways :
        /\ r.id \in sweep[s].kept
        /\ r.ends_at > now
        /\ sweep[s].pc = "loop"

(* C5: at most one execution of _giveaway_checker is in flight *)
C5_SingleFlight == Cardinality(InFlight) <= 1

(* a sweep is suspended in a messaging call of end() while the loop is     *)
(* alive and the bot ready, so the timer asks for the next run             *)
C5_Witness ==
    \E s \in SweepSlots :
        /\ InMessaging(s)
        /\ loopAlive
        /\ ready
        /\ giveaways # {}

(* C6: a sweep starts only when the bot is ready; a step taken while it is *)
(* not ready, the command's apart, leaves the store, the announcements and *)
(* the sweeps as they were; and the giveaways that were stored and due at  *)
(* a skipped tick are concluded by the first sweep that runs: when it is   *)
(* over, their records are deleted.                                        *)
C6_ReadinessGuard ==
    [][/\ \A s \in SweepSlots :
             sweep[s].pc = "idle" /\ sweep'[s].pc # "idle" => ready
       /\ (~ready /\ ~ready' /\ cmd' = cmd) =>
             /\ giveaways' = giveaways
             /\ rewards' = rewards
             /\ announced' = announced
             /\ ended' = ended
             /\ sweep' = sweep
       /\ \A s \in SweepSlots :
             SweepEnds(s) => sweep[s].owed \cap StoredIds' = {}]_vars

-----------------------------------------------------------------------------
(* The call of update() that has just returned *)

Returned == cmd.pc = "done"

ReturnedGiveaway == TheValue(cmd.g)

WritesParent == cmd.pc = "upd_parent" /\ cmd'.pc # "upd_parent"

WritesReward == cmd.pc = "upd_reward" /\ cmd'.pc # "failed"

(* C7: when update() has returned, the reward rows stored under the        *)
(* giveaway's identifier are exactly its current role_rewards.             *)
C7_RewardRowsAreCurrent ==
    Returned =>
        RolesUnder(rewards, _id(ReturnedGiveaway)) = SeqToSet(RewardsOf(ReturnedGiveaway))

(* C8: the parent upsert of update() leaves exactly one row under the      *)
(* giveaway's identifier, carrying the ends_at of this call, so of the     *)
(* second of two calls; no two rows ever share an identifier; and a        *)
(* statement of update() that writes what is stored already leaves the     *)
(* store as it is, so a second call with the same data changes nothing.    *)
C8_UpsertLastWriteWins ==
    [][/\ \A r1, r2 \in giveaways' : r1.id = r2.id => r1 = r2
       /\ WritesParent =>
             LET g == TheValue(cmd.g)
                 rows == {r \in giveaways' : r.id = _id(g)}
             IN  /\ Cardinality(rows) = 1
                 /\ \A r \in rows : r.ends_at = g.ends_at
                 /\ GiveawayRow(g) \in giveaways => giveaways' = giveaways
                 /\ rewards' = rewards
       /\ WritesReward =>
             LET g == TheValue(cmd.g)
             IN  /\ giveaways' = giveaways
                 /\ RewardRow(RewardsOf(g)[cmd.i], _id(g)) \in rewards => rewards' = rewards]_vars

(* a second update() under one identifier has returned, and its ends_at    *)
(* replaced another one                                                    *)
C8_Witness ==
    /\ Returned
    /\ cmd.replaced
    /\ \E r \in giveaways :
          r.id = _id(ReturnedGiveaway) /\ r.ends_at = ReturnedGiveaway.ends_at

(* C9: every row of giveaway_role_rewards names a stored giveaway *)
C9_NoOrphanRewards ==
    \A w \in rewards : \E r \in giveaways : r.id = w.giveaway_id

(* the delete of end() landed between the parent insert of update() and    *)
(* its reward insert, which the store refused                              *)
C9_Witness ==
    /\ cmd.pc = "failed"
    /\ _id(TheValue(cmd.g)) \in deleted
    /\ rewards # {}

(* C10: when update(g) has returned and nothing was concluded,             *)
(* from_database under g's identifiers returns a giveaway equal to g in    *)
(* guild_id, channel_id, message_id, ends_at and in its list of role       *)
(* rewards (no list and the empty list taken as the same list).            *)
C10_RoundTrip ==
    (Returned /\ deleted = {}) =>
        LET g == ReturnedGiveaway
            found == from_database(giveaways, g.guild_id, g.channel_id, g.message_id)
        IN  /\ ~IsNone(found)
            /\ TheValue(found).guild_id = g.guild_id
            /\ TheValue(found).channel_id = g.channel_id
            /\ TheValue(found).message_id = g.message_id
            /\ TheValue(found).ends_at = g.ends_at
            /\ RewardsOf(TheValue(found)) = RewardsOf(g)

-----------------------------------------------------------------------------
(* The running call of get_giveaways *)

SuppliedFilters == {k \in {"guild", "channel", "message"} : query[k] # None}

Matches(r) ==
    /\ query.guild # None => r.guild_id = TheValue(query.guild)
    /\ query.channel # None => r.channel_id = TheValue(query.channel)
    /\ query.message # None => r.message_id = TheValue(query.message)

RunsParentQuery == query.pc = "q_parents" /\ query'.pc # "q_parents"

RunsRewardQuery == query.pc = "q_rewards" /\ query'.pc # "q_rewards"

ResultIds == {_id(x) : x \in query.result}

C12_RewardJoin ==
    [][(RunsRewardQuery /\ query.payload = {r \in giveaways : Matches(r)}) =>
          /\ \A x \in query'.result : \E r \in query.payload : r.id = _id(x)
          /\ \A r \in query.payload :
                LET hits == {x \in query'.result : _id(x) = r.id}
                    stored == {w.role_id : w \in {v \in rewards : v.giveaway_id = r.id}}
                IN  /\ Cardinality(hits) = 1
                    /\ \A x \in hits :
                          /\ SeqToSet(RewardsOf(x)) = stored
                          /\ Len(RewardsOf(x)) = Cardinality(stored)]_vars

(* two giveaways came back, one with two rewards and one with one *)
C12_Witness ==
    /\ query.pc = "returned"
    /\ \E x, y \in query.result :
          /\ _id(x) # _id(y)
          /\ Len(RewardsOf(x)) = 2
          /\ Len(RewardsOf(y)) = 1

-----------------------------------------------------------------------------
(* Steps of end() *)

(* end() returns to the checker without a post, the record being deleted *)
SilentReturn(s) ==
    /\ sweep'[s].pc = "loop"
    /\ loopAlive' = loopAlive
    /\ announced' = announced
    /\ CurId(s) \notin StoredIds'
    /\ CurId(s) \in deleted'

(* C14: when the channel is not found, when fetch_message raises NotFound, *)
(* Forbidden or HTTPException, and when the fetched message carries no     *)
(* reaction with the emoji end() looks for, end() returns normally to the  *)
(* checker: nothing is raised, no announcement is posted, and the          *)
(* giveaway's record is deleted.                                           *)
C14_SilentStop ==
    [][\A s \in SweepSlots :
          /\ DeleteThenChannel(s, FALSE) => SilentReturn(s)
          /\ \A error \in {"NotFound", "Forbidden", "HTTPException"} :
                FetchRaises(s, error) => SilentReturn(s)
          /\ \A reactions \in SUBSET Emojis :
                (FetchReturns(s, reactions) /\ EndEmoji \notin reactions) =>
                    SilentReturn(s)]_vars

(* end() returned to the running sweep for a giveaway that is deleted     *)
(* now, and nothing was announced for it                                   *)
C14_Witness ==
    \E s \in SweepSlots :
        /\ sweep[s].pc = "loop"
        /\ loopAlive
        /\ \E id \in ended \cap deleted : id \notin announced /\ id \notin StoredIds

(* C15: a NotFound or Forbidden raised by fetch_message, by                *)
(* reaction.users() or by message.reply() inside end() does not leave      *)
(* end(): end() returns normally to the checker, which goes on.            *)
C15_MessagingErrorsSilent ==
    [][\A s \in SweepSlots : \A error \in {"NotFound", "Forbidden"} :
          (FetchRaises(s, error) \/ UsersRaises(s, error) \/ ReplyRaises(s, error)) =>
              /\ sweep'[s].pc = "loop"
              /\ loopAlive' = loopAlive]_vars

(* C16: when reaction.users() yields bots only, or nobody, end() selects   *)
(* no winner and prepares the nobody-joined announcement with 0            *)
(* participants, the record being deleted; the step that follows posts     *)
(* that announcement, the only one for the giveaway, and end() returns     *)
(* normally.                                                               *)
C16_NobodyJoined ==
    [][\A s \in SweepSlots :
          /\ \A users \in SUBSET Users :
                (EnumerateUsers(s, users) /\ \A u \in users : IsBot(u)) =>
                    /\ sweep'[s].win = Some(Announcement("nobody", "", 0))
                    /\ CurId(s) \notin StoredIds'
          /\ (/\ sweep[s].pc = "end_reply"
              /\ TheValue(sweep[s].win).kind = "nobody"
              /\ sweep'[s].pc # "end_reply"
              /\ ready') =>
                    /\ sweep'[s].pc = "loop"
                    /\ loopAlive' = loopAlive
                    /\ CurId(s) \notin announced
                    /\ announced' = announced \cup {CurId(s)}]_vars

(* C17: the announcement end() prepares counts the non-bot users that      *)
(* reaction.users() yielded; a winner, when there is one, is one of those  *)
(* users and not a bot; and each of them can be the winner.                *)
C17_WinnerValidity ==
    [][\A s \in SweepSlots : \A users \in SUBSET Users :
          /\ EnumerateUsers(s, users) =>
                LET a == TheValue(sweep'[s].win)
                IN  /\ a.n = Cardinality({u \in users : ~IsBot(u)})
                    /\ a.kind = "winner" <=> a.n > 0
                    /\ a.kind = "winner" => a.winner \in users /\ ~IsBot(a.winner)
          /\ sweep[s].pc = "end_users" =>
                \A u \in {v \in users : ~IsBot(v)} :
                    ENABLED (EnumerateUsers(s, users)
                             /\ TheValue(sweep'[s].win).winner = u)]_vars

(* bob won among two participants: ann and bob had both reacted *)
C17_Witness ==
    \E s \in SweepSlots :
        /\ sweep[s].pc = "end_reply"
        /\ sweep[s].win = Some(Announcement("winner", "bob", 2))

-----------------------------------------------------------------------------
(* Failures under the checker *)

(* end() of the giveaway in hand fails: its DELETE, or an error that      *)
(* leaves end() from reaction.users() or message.reply()                   *)
EndFails(s) ==
    \/ \E error \in StorageErrors : sweep[s].pc = "end_delete" /\ StorageFails(s, error)
    \/ \E error \in MessagingErrors : UsersRaises(s, error) \/ ReplyRaises(s, error)

DueInList(s) == {g \in sweep[s].list : g.ends_at <= now}

(* C18: when a storage call of a sweep fails (the load of the giveaways or *)
(* the DELETE of end()) while a due giveaway is stored, the store is as it *)
(* was, so the giveaway is still stored, nothing is announced, and the     *)
(* checker loop stays scheduled, so that a later tick can conclude the     *)
(* giveaway.                                                               *)
C18_StorageFailureRetried ==
    [][\A s \in SweepSlots : \A error \in StorageErrors :
          (StorageFails(s, error) /\ DueIds # {}) =>
              /\ giveaways' = giveaways
              /\ rewards' = rewards
              /\ announced' = announced
              /\ sweep[s].pc = "end_delete" => CurId(s) \in StoredIds'
              /\ loopAlive']_vars

(* C20: when end() fails for one giveaway of a sweep, the sweep goes on    *)
(* with the giveaways it has loaded: it is back in its loop with the list  *)
(* it had, so that every other due giveaway of the list is concluded in    *)
(* this sweep.                                                             *)
C20_FailureIsolation ==
    [][\A s \in SweepSlots :
          (EndFails(s) /\ DueInList(s) # {}) =>
              /\ sweep'[s].pc = "loop"
              /\ sweep'[s].list = sweep[s].list]_vars

-----------------------------------------------------------------------------
(* Identifiers *)

Triple(r) == <<r.guild_id, r.channel_id, r.message_id>>

ExpectedId(t) == ToString(t[1]) \o "/" \o ToString(t[2]) \o "/" \o ToString(t[3])

Lookup(table, t) == from_database(table, t[1], t[2], t[3])

(* the string made of three integers, and one string per triple *)
IdentifierShape ==
    /\ generate_id(1, 11, 1) = "1/11/1"
    /\ generate_id(11, 1, 1) = "11/1/1"
    /\ generate_id(-1, 0, 5) = "-1/0/5"
    /\ \A t1, t2 \in IdTriples :
          generate_id(t1[1], t1[2], t1[3]) = generate_id(t2[1], t2[2], t2[3]) <=> t1 = t2

(* C19: the identifier of a giveaway is the string guild_id/channel_id/    *)
(* message_id, computed from the three fields and not a field of its own;  *)
(* two triples give the same identifier only when they are the same        *)
(* triple; the row update() writes is the one from_database finds under    *)
(* the triple, its reward rows carry the same identifier, the DELETE of    *)
(* end() removes that row, and neither touches a row of another triple.    *)
C19_IdentifierDerivation ==
    [][/\ IdentifierShape
       /\ \A r \in giveaways' : r.id = ExpectedId(Triple(r))
       /\ \A w \in rewards' : \E t \in IdTriples : w.giveaway_id = ExpectedId(t)
       /\ ~IsNone(cmd'.g) => "id" \notin DOMAIN TheValue(cmd'.g)
       /\ WritesParent =>
             LET g == TheValue(cmd.g) IN
             /\ ~IsNone(Lookup(giveaways', Triple(g)))
             /\ Triple(TheValue(Lookup(giveaways', Triple(g)))) = Triple(g)
             /\ \A r \in giveaways : Triple(r) # Triple(g) => r \in giveaways'
       /\ (WritesReward /\ rewards' # rewards) =>
             LET g == TheValue(cmd.g) IN
             \A w \in rewards' \ rewards : w.giveaway_id = ExpectedId(Triple(g))
       /\ \A s \in SweepSlots :
             CompletesDelete(s) =>
                 LET g == TheValue(sweep[s].cur) IN
                 /\ IsNone(Lookup(giveaways', Triple(g)))
                 /\ \A r \in giveaways : Triple(r) # Triple(g) => r \in giveaways']_vars

(* 1/11/1 and 11/1/1 are stored side by side, update() having returned    *)
(* for the second of them                                                  *)
C19_Witness ==
    /\ \E r1, r2 \in giveaways : r1.id = "1/11/1" /\ r2.id = "11/1/1"
    /\ cmd.pc = "done"

-----------------------------------------------------------------------------
(* get_giveaways next to a concurrent end() *)

(* The role sets the store held under id, next to its parent row, at an    *)
(* instant of the call in flight: when the parent query ran and, the row   *)
(* being stored still, when the reward query runs.  No step writes a       *)
(* reward row while the call is in flight, so there are no others.         *)
HeldDuringCall(id) ==
    {RolesUnder(query.held, id)} \cup
    (IF id \in StoredIds THEN {RolesUnder(rewards, id)} ELSE {})

(* C21: whatever the checker does between the two queries of              *)
(* get_giveaways, the call returns and does not raise KeyError; every      *)
(* giveaway it returns carries the roles the store held under its          *)
(* identifier, next to its parent row, at one instant of the call; and a   *)
(* giveaway that was stored with rewards is not returned with none.        *)
C21_SnapshotConsistency ==
    [][RunsRewardQuery =>
          /\ query'.pc = "returned"
          /\ \A x \in query'.result :
                /\ SeqToSet(RewardsOf(x)) \in HeldDuringCall(_id(x))
                /\ RolesUnder(query.held, _id(x)) # {} => RewardsOf(x) # <<>>]_vars

-----------------------------------------------------------------------------
(* The entry reaction, from the command to end() *)

(* The messages the command has sent and put its reaction on: it awaits    *)
(* ctx.channel.send and add_reaction before it builds the giveaway.        *)
ReactedMessages == 1..(nextMsg - 1)

(* C22: every giveaway the command persists names a message the command    *)
(* has already put its reaction on; and when end() fetches the message of  *)
(* a giveaway the command created and the command's reaction is on it,     *)
(* end() finds the entry reaction and goes on to enumerate its users.      *)
C22_EntryReactionAgreement ==
    [][/\ \A r \in giveaways' : r.message_id \in ReactedMessages'
       /\ \A s \in SweepSlots : \A reactions \in SUBSET Emojis :
             (FetchReturns(s, reactions) /\ CommandEmoji \in reactions) =>
                 /\ ~IsNone(find_reaction(reactions))
                 /\ sweep'[s].pc = "end_users"]_vars

====
